---- MODULE Spec2Model ----
(***************************************************************************)
(* Commander Tracker (src/app.py): the store tables, the shared            *)
(* st.cache_data entry of get_data, the "Registrar Partida" submit handler *)
(* run by concurrent sessions, and the dashboard aggregations.             *)
(*                                                                         *)
(* A Streamlit session runs the script top to bottom for every page view   *)
(* or form submission; sessions run concurrently and interleave at the     *)
(* store calls, so a submit run is split at its store calls.               *)
(***************************************************************************)
EXTENDS Integers, Sequences, FiniteSets, TLC

(***************************************************************************)
(* Bounds of the model.                                                    *)
(***************************************************************************)
MaxMatches == 2        \* Match rows inserted in a behaviour of Spec
StatsMaxMatches == 5   \* Match rows inserted in a behaviour of SpecStats
TickSeconds == 300     \* the clock advances in steps of this many seconds

Sessions == {"s1", "s2"}

(***************************************************************************)
(* Program constants.                                                      *)
(***************************************************************************)
ttl == 600             \* @st.cache_data(ttl=600)
NumSeats == 4          \* for i in range(4)
MinValidos == 2        \* if len(validos) < 2
MinJogos == 5          \* stats[stats['jogos'] >= 5]
TopN == 10             \* .head(10)
HistoryLimit == 10000  \* .limit(10000)

(***************************************************************************)
(* Strings.  pandas represents a missing value as NaN: NaN propagates      *)
(* through string concatenation and never compares equal to anything,      *)
(* itself included.  NaN is modelled by a reserved string.                 *)
(***************************************************************************)
NaN == "<NaN>"

IsNa(x) == x = NaN

\* s1 + s2 on a pandas object column
StrAdd(a, b) == IF IsNa(a) \/ IsNa(b) THEN NaN ELSE a \o b

\* Series.astype(str): a missing value becomes the text "nan"
AsTypeStr(x) == IF IsNa(x) THEN "nan" ELSE x

\* elementwise == of a pandas column against a value
PdEq(a, b) == ~IsNa(a) /\ ~IsNa(b) /\ a = b

\* the characters of the model's strings, in code-point order
Alphabet == " ()-0123456789<>ABCDEFGHIJKLMNOPQRSTUVWXYZabcdefghijklmnopqrstuvwxyz"

Chars == {SubSeq(Alphabet, i, i) : i \in 1..Len(Alphabet)}

OrdTable == [c \in Chars |-> CHOOSE i \in 1..Len(Alphabet) : SubSeq(Alphabet, i, i) = c]

\* Python's ord(c), up to the order it gives
Ord(c) == OrdTable[c]

RECURSIVE StrLessFrom(_, _, _)
StrLessFrom(a, b, i) ==
    IF i > Len(b) THEN FALSE
    ELSE IF i > Len(a) THEN TRUE
    ELSE LET ca == Ord(SubSeq(a, i, i))
             cb == Ord(SubSeq(b, i, i))
         IN  IF ca < cb THEN TRUE
             ELSE IF ca > cb THEN FALSE
             ELSE StrLessFrom(a, b, i + 1)

\* Python's str < str
StrLess(a, b) == a # b /\ StrLessFrom(a, b, 1)

(***************************************************************************)
(* Sequence helpers.  A sequence built element by element is written       *)
(* <<>> \o [i \in 1..n |-> e], which is the same sequence.                 *)
(***************************************************************************)
Range(s) == {s[i] : i \in DOMAIN s}

\* order of sort keys: ascending text, missing values last
KeyLess(a, b) == ~IsNa(a) /\ (IsNa(b) \/ StrLess(a, b))

\* s sorted, where less[i, j] tells that s[i] sorts before s[j]; elements
\* that sort alike keep their order (pandas and the store leave the order of
\* ties open; for frames of this size numpy's sort keeps it)
StableSort(s, less) ==
    LET Before(j, i) == less[j, i] \/ (~less[i, j] /\ j < i)
        rank == <<>> \o [i \in 1..Len(s) |->
                            Cardinality({j \in 1..Len(s) : Before(j, i)}) + 1]
    IN  <<>> \o [k \in 1..Len(s) |-> s[CHOOSE i \in 1..Len(s) : rank[i] = k]]

\* rows in ascending order of their keys, missing keys last
SortByKeys(rows, keys) ==
    StableSort(rows, [i \in DOMAIN rows, j \in DOMAIN rows |-> KeyLess(keys[i], keys[j])])

RECURSIVE Unique(_)
\* Series.unique(): the distinct values in order of first appearance
Unique(s) ==
    IF s = <<>> THEN <<>>
    ELSE LET rest == Unique(SubSeq(s, 1, Len(s) - 1))
         IN  IF s[Len(s)] \in Range(rest) THEN rest ELSE Append(rest, s[Len(s)])

RECURSIVE SumSeq(_)
SumSeq(s) == IF s = <<>> THEN 0 ELSE Head(s) + SumSeq(Tail(s))

Reverse(s) == <<>> \o [i \in 1..Len(s) |-> s[Len(s) + 1 - i]]

\* DataFrame.head(n) / .limit(n)
TakeFirst(s, n) == IF Len(s) <= n THEN s ELSE SubSeq(s, 1, n)

(***************************************************************************)
(* The store's players and decks tables.  They are created out of band     *)
(* and this program never writes them.                                     *)
(***************************************************************************)
PlayersTable ==
    << [player_id |-> 2, name |-> "Bo"],
       [player_id |-> 1, name |-> "Ana"] >>

\* Decks 1 and 4 carry the same name for the same owner; deck 5 has no
\* deck_name (a NULL column value); deck 3 is colourless.
DecksTable ==
    << [deck_id |-> 1, deck_name |-> "Atraxa", player_id |-> 1, color_identity |-> "WUBG"],
       [deck_id |-> 2, deck_name |-> "Krenko", player_id |-> 2, color_identity |-> "R"],
       [deck_id |-> 3, deck_name |-> "Karn",   player_id |-> 2, color_identity |-> ""],
       [deck_id |-> 4, deck_name |-> "Atraxa", player_id |-> 1, color_identity |-> "G"],
       [deck_id |-> 5, deck_name |-> NaN,      player_id |-> 1, color_identity |-> "U"],
       [deck_id |-> 6, deck_name |-> "Edgar",  player_id |-> 1, color_identity |-> "WBR"] >>

\* the dates the date_input of the form is set to
Dates == {"2026-01-02"}

(***************************************************************************)
(* State.                                                                  *)
(***************************************************************************)
VARIABLES
    matches,            \* store: rows of table "matches", in insertion order
    match_participants, \* store: rows of table "match_participants"
    next_match_id,      \* store: the auto-increment counter of matches.match_id
    cache,              \* the st.cache_data entry of get_data, shared by all sessions
    pc,                 \* per session: where its current script run stands
    df_history,         \* per session: the history get_data() gave the current run
    validos,            \* per session: the filled seat entries of the current run
    novo_match_id,      \* per session: the identifier its last Match insert returned
    result,             \* per session: the message its last submission ended with
    painel              \* per session: what its last dashboard run computed

vars == <<matches, match_participants, next_match_id, cache, pc, df_history,
          validos, novo_match_id, result, painel>>

store == <<matches, match_participants, next_match_id>>

(***************************************************************************)
(* The store's read operations.                                            *)
(***************************************************************************)
MatchRow(ms, id) == CHOOSE m \in Range(ms) : m.match_id = id

PlayerRow(id) == CHOOSE p \in Range(PlayersTable) : p.player_id = id

DeckRow(id) == CHOOSE d \in Range(DecksTable) : d.deck_id = id

\* view_full_history: one row per participant row, joined with its match,
\* player and deck
ViewFullHistory(ms, ps) ==
    <<>> \o [i \in 1..Len(ps) |->
        [match_id        |-> ps[i].match_id,
         date            |-> MatchRow(ms, ps[i].match_id).date,
         player_name     |-> PlayerRow(ps[i].player_id).name,
         deck_name       |-> DeckRow(ps[i].deck_id).deck_name,
         color_identity  |-> DeckRow(ps[i].deck_id).color_identity,
         is_winner       |-> ps[i].is_winner,
         turn_eliminated |-> ps[i].turn_eliminated]]

\* table("players").select("*").order("name")
SelectPlayers ==
    SortByKeys(PlayersTable, <<>> \o [i \in DOMAIN PlayersTable |-> PlayersTable[i].name])

\* table("decks").select("*")
SelectDecks == DecksTable

\* table("view_full_history").select("*").order("date", desc=True).limit(10000)
SelectHistory(ms, ps) ==
    LET view == ViewFullHistory(ms, ps)
        dates == <<>> \o [i \in DOMAIN view |-> view[i].date]
    IN  TakeFirst(Reverse(SortByKeys(view, dates)), HistoryLimit)

(***************************************************************************)
(* get_data and its cache.  The players and decks tables never change, so  *)
(* every cached or fetched copy of them equals DfPlayers and DfDecks; the  *)
(* cache entry and the sessions keep the history part alone.               *)
(***************************************************************************)
DfPlayers == SelectPlayers

DfDecks == SelectDecks

EmptyCache == [present |-> FALSE, age |-> 0, data |-> <<>>]

\* an entry is served until it is ttl seconds old
CacheHit(c) == c.present /\ c.age < ttl

\* the df_history that the decorated get_data() returns
GetDataValue(c, ms, ps) == IF CacheHit(c) THEN c.data ELSE SelectHistory(ms, ps)

\* the cache entry after a call of the decorated get_data()
GetDataCache(c, ms, ps) ==
    IF CacheHit(c) THEN c
    ELSE [present |-> TRUE, age |-> 0, data |-> SelectHistory(ms, ps)]

\* CacheDataClear that leaves the entry in place
CacheDataKeep(c) == c

\* st.cache_data.clear()
CacheDataClear(c) == EmptyCache

(***************************************************************************)
(* The deck list of the form: "Nome do Deck (Dono)".                       *)
(***************************************************************************)
\* df_decks['player_id'].map(player_map): a missing key maps to NaN
OwnerName(df_players, player_id) ==
    IF \E i \in DOMAIN df_players : df_players[i].player_id = player_id
    THEN (CHOOSE p \in Range(df_players) : p.player_id = player_id).name
    ELSE NaN

DisplayName(df_players, d) ==
    StrAdd(StrAdd(StrAdd(d.deck_name, " ("),
                  AsTypeStr(OwnerName(df_players, d.player_id))), ")")

\* df_decks with the display_name column, sorted by it; the rows are plain
\* deck rows when either frame is empty
DecksWithDisplayName(df_players, df_decks) ==
    IF df_decks # <<>> /\ df_players # <<>>
    THEN LET named == <<>> \o [i \in 1..Len(df_decks) |->
                          [deck_id        |-> df_decks[i].deck_id,
                           player_id      |-> df_decks[i].player_id,
                           deck_name      |-> df_decks[i].deck_name,
                           color_identity |-> df_decks[i].color_identity,
                           display_name   |-> DisplayName(df_players, df_decks[i])]]
         IN  SortByKeys(named, <<>> \o [i \in DOMAIN named |-> named[i].display_name])
    ELSE df_decks

\* df_decks as the rest of the script sees it
DfDecksDisplay == DecksWithDisplayName(DfPlayers, DfDecks)

(***************************************************************************)
(* Initial state: an empty history, nothing cached, every session between  *)
(* runs.                                                                   *)
(***************************************************************************)
NoPainel == [ano_sel |-> "", df_filtered |-> <<>>, stats |-> <<>>, cores |-> <<>>]

Init ==
    /\ matches = <<>>
    /\ match_participants = <<>>
    /\ next_match_id = 1
    /\ cache = EmptyCache
    /\ pc = [s \in Sessions |-> "idle"]
    /\ df_history = [s \in Sessions |-> <<>>]
    /\ validos = [s \in Sessions |-> <<>>]
    /\ novo_match_id = [s \in Sessions |-> 0]
    /\ result = [s \in Sessions |-> "none"]
    /\ painel = [s \in Sessions |-> NoPainel]

\* line 55: every script run starts by calling get_data(); the page of the
\* run before is replaced; a miss reads the store and fills the entry in
\* this one step
GetData(s) ==
    /\ pc[s] = "idle"
    /\ df_history' = [df_history EXCEPT
                         ![s] = GetDataValue(cache, matches, match_participants)]
    /\ cache' = GetDataCache(cache, matches, match_participants)
    /\ pc' = [pc EXCEPT ![s] = "run"]
    /\ novo_match_id' = [novo_match_id EXCEPT ![s] = 0]
    /\ result' = [result EXCEPT ![s] = "none"]
    /\ painel' = [painel EXCEPT ![s] = NoPainel]
    /\ UNCHANGED <<store, validos>>

\* time passes: the cached entry ages (its age past ttl is not told apart)
Tick ==
    /\ cache.present
    /\ cache.age < ttl
    /\ cache' = [cache EXCEPT !.age = cache.age + TickSeconds]
    /\ UNCHANGED <<store, pc, df_history, validos, novo_match_id, result, painel>>

\* the script run of session s ends: its locals are gone, the page stays
EndRun(s, message) ==
    /\ pc' = [pc EXCEPT ![s] = "idle"]
    /\ df_history' = [df_history EXCEPT ![s] = <<>>]
    /\ validos' = [validos EXCEPT ![s] = <<>>]
    /\ result' = [result EXCEPT ![s] = message]

(***************************************************************************)
(* The form "Registrar Partida": four seats, each a player, a deck, the    *)
(* winner mark and the turn of elimination.                                *)
(***************************************************************************)
\* lista_jogadores
ListaJogadores == <<"">> \o [i \in DOMAIN DfPlayers |-> DfPlayers[i].name]

\* lista_decks_formatada
ListaDecksFormatada ==
    <<"">> \o [i \in DOMAIN DfDecksDisplay |-> DfDecksDisplay[i].display_name]

Seat(nome, deck_display, venceu, turno) ==
    [nome |-> nome, deck_display |-> deck_display, venceu |-> venceu, turno |-> turno]

Vazio == Seat("", "", FALSE, 0)

\* The submissions the sessions of Spec make: no seat filled; one seat
\* filled and two half filled; two seats filled with each player's own deck;
\* a deck name that two decks share; each player with the other's deck; the
\* deck whose display name is missing.
Forms ==
    { <<Vazio, Vazio, Vazio, Vazio>>,
      <<Seat("Ana", "Edgar (Ana)", TRUE, 0), Seat("Bo", "", FALSE, 5),
        Vazio, Seat("", "Krenko (Bo)", FALSE, 0)>>,
      <<Seat("Ana", "Edgar (Ana)", TRUE, 0), Seat("Bo", "Krenko (Bo)", FALSE, 7),
        Vazio, Vazio>>,
      <<Seat("Bo", "Karn (Bo)", TRUE, 0), Vazio,
        Seat("Ana", "Atraxa (Ana)", FALSE, 4), Vazio>>,
      <<Seat("Ana", "Krenko (Bo)", FALSE, 6), Seat("Bo", "Edgar (Ana)", TRUE, 0),
        Vazio, Vazio>>,
      <<Seat("Ana", NaN, TRUE, 0), Seat("Bo", "Krenko (Bo)", FALSE, 3),
        Vazio, Vazio>> }

\* The submissions the session of SpecStats makes: Ana beats Bo; Bo beats
\* Ana with a colourless deck; Ana sits in two seats and wins in both.
StatsSubmissions ==
    { [data_jogo |-> "2025-12-30",
       form |-> <<Seat("Ana", "Edgar (Ana)", TRUE, 0), Seat("Bo", "Krenko (Bo)", FALSE, 7),
                  Vazio, Vazio>>],
      [data_jogo |-> "2026-01-02",
       form |-> <<Seat("Ana", "Edgar (Ana)", FALSE, 9), Seat("Bo", "Karn (Bo)", TRUE, 0),
                  Vazio, Vazio>>],
      [data_jogo |-> "2026-01-02",
       form |-> <<Seat("Ana", "Edgar (Ana)", TRUE, 0), Seat("Ana", "Edgar (Ana)", TRUE, 0),
                  Seat("Bo", "Krenko (Bo)", FALSE, 8), Vazio>>] }

\* a selectbox returns one of its options
Selectable(f) ==
    /\ Len(f) = NumSeats
    /\ \A i \in 1..NumSeats :
          /\ f[i].nome \in Range(ListaJogadores)
          /\ f[i].deck_display \in Range(ListaDecksFormatada)
          /\ f[i].turno >= 0

\* a value != "" in Python: NaN is not the empty string
NotEmptyStr(x) == x # ""

\* Validos with "or" for "and": a half-filled seat counts as filled
ValidosEither(f) ==
    LET Filled(p) == NotEmptyStr(p.nome) \/ NotEmptyStr(p.deck_display)
    IN  SelectSeq(f, Filled)

\* validos = [p for p in participantes if p['nome'] != "" and p['deck_display'] != ""]
Validos(f) ==
    LET Filled(p) == NotEmptyStr(p.nome) /\ NotEmptyStr(p.deck_display)
    IN  SelectSeq(f, Filled)

(***************************************************************************)
(* The submit handler, first part: validation and the Match insert.        *)
(***************************************************************************)
\* res_match.data of a successful insert: the row as the store stored it
InsertedMatch(id, data_jogo, notas) ==
    << [match_id |-> id, date |-> data_jogo, notes |-> notas] >>

\* NovoMatchId that takes the number of returned rows for the identifier
NovoMatchIdRowCount(res_data) == Len(res_data)

\* novo_match_id = res_match.data[0]['match_id']
NovoMatchId(res_data) == res_data[1].match_id

\* lines 211-212: fewer than two filled seats
SubmitInsufficient(s, f) ==
    /\ pc[s] = "run"
    /\ Selectable(f)
    /\ Len(Validos(f)) < MinValidos
    /\ EndRun(s, "insufficient")
    /\ UNCHANGED <<store, cache, novo_match_id, painel>>

\* lines 217-224: the store inserts the Match row and returns it
SubmitInsertMatch(s, f, data_jogo, max) ==
    /\ pc[s] = "run"
    /\ Selectable(f)
    /\ ~(Len(Validos(f)) < MinValidos)
    /\ next_match_id <= max
    /\ LET res_data == InsertedMatch(next_match_id, data_jogo, "")
       IN  /\ matches' = matches \o res_data
           /\ novo_match_id' = [novo_match_id EXCEPT ![s] = NovoMatchId(res_data)]
    /\ next_match_id' = next_match_id + 1
    /\ validos' = [validos EXCEPT ![s] = Validos(f)]
    /\ pc' = [pc EXCEPT ![s] = "inserted"]
    /\ UNCHANGED <<match_participants, cache, df_history, result, painel>>

\* lines 221, 251-252: the Match insert raises
SubmitInsertMatchFails(s, f) ==
    /\ pc[s] = "run"
    /\ Selectable(f)
    /\ ~(Len(Validos(f)) < MinValidos)
    /\ EndRun(s, "error_insert_match")
    /\ UNCHANGED <<store, cache, novo_match_id, painel>>

(***************************************************************************)
(* The submit handler, second part: the names are resolved to identifiers  *)
(* and the participant rows are inserted in one call.                      *)
(***************************************************************************)
\* df_players[df_players['name'] == nome]['player_id'].values
PlayerIdValues(nome) ==
    LET Match(r) == PdEq(r.name, nome)
        found == SelectSeq(DfPlayers, Match)
    IN  <<>> \o [i \in DOMAIN found |-> found[i].player_id]

\* df_decks[df_decks['display_name'] == deck_display]['deck_id'].values
DeckIdValues(deck_display) ==
    LET Match(r) == PdEq(r.display_name, deck_display)
        found == SelectSeq(DfDecksDisplay, Match)
    IN  <<>> \o [i \in DOMAIN found |-> found[i].deck_id]

\* .values[0] raises IndexError on an empty selection
RaisesIndexError(vs) ==
    \E i \in 1..Len(vs) :
        \/ PlayerIdValues(vs[i].nome) = <<>>
        \/ DeckIdValues(vs[i].deck_display) = <<>>

\* DadosParticipantes that numbers the rows with the identifier after the
\* one returned
DadosParticipantesNextId(vs, id) ==
    <<>> \o [i \in 1..Len(vs) |->
        [match_id        |-> id + 1,
         player_id       |-> PlayerIdValues(vs[i].nome)[1],
         deck_id         |-> DeckIdValues(vs[i].deck_display)[1],
         is_winner       |-> vs[i].venceu,
         turn_eliminated |-> vs[i].turno,
         rank            |-> IF vs[i].venceu THEN 1 ELSE 0]]

\* lines 227-242
DadosParticipantes(vs, id) ==
    <<>> \o [i \in 1..Len(vs) |->
        [match_id        |-> id,
         player_id       |-> PlayerIdValues(vs[i].nome)[1],
         deck_id         |-> DeckIdValues(vs[i].deck_display)[1],
         is_winner       |-> vs[i].venceu,
         turn_eliminated |-> vs[i].turno,
         rank            |-> IF vs[i].venceu THEN 1 ELSE 0]]

\* lines 230-233, 251-252: a lookup comes back empty
ResolveFails(s) ==
    /\ pc[s] = "inserted"
    /\ RaisesIndexError(validos[s])
    /\ EndRun(s, "error_index")
    /\ UNCHANGED <<store, cache, novo_match_id, painel>>

\* line 245: the batch insert succeeds
InsertParticipants(s) ==
    /\ pc[s] = "inserted"
    /\ ~RaisesIndexError(validos[s])
    /\ match_participants' =
           match_participants \o DadosParticipantes(validos[s], novo_match_id[s])
    /\ pc' = [pc EXCEPT ![s] = "written"]
    /\ UNCHANGED <<matches, next_match_id, cache, df_history, validos,
                   novo_match_id, result, painel>>

\* InsertParticipantsFails that deletes the Match row of the call
InsertParticipantsFailsUndo(s) ==
    /\ pc[s] = "inserted"
    /\ ~RaisesIndexError(validos[s])
    /\ LET Others(m) == m.match_id # novo_match_id[s]
       IN  matches' = SelectSeq(matches, Others)
    /\ EndRun(s, "error_insert_participants")
    /\ UNCHANGED <<match_participants, next_match_id, cache, novo_match_id, painel>>

\* lines 245, 251-252: the batch insert raises
InsertParticipantsFails(s) ==
    /\ pc[s] = "inserted"
    /\ ~RaisesIndexError(validos[s])
    /\ EndRun(s, "error_insert_participants")
    /\ UNCHANGED <<store, cache, novo_match_id, painel>>

\* lines 247-249: the success message and st.cache_data.clear()
Success(s) ==
    /\ pc[s] = "written"
    /\ cache' = CacheDataClear(cache)
    /\ EndRun(s, "success")
    /\ UNCHANGED <<store, novo_match_id, painel>>

(***************************************************************************)
(* The dashboard: year filter, win-rate ranking, colour frequencies.       *)
(***************************************************************************)
\* pd.to_datetime(date).dt.year, kept as the four digits of the ISO date
Year(date) == SubSeq(date, 1, 4)

\* ["Todos"] + list(anos)
AnoOptions(history) ==
    {"Todos"} \cup {Year(history[i].date) : i \in DOMAIN history}

\* lines 88-90
DfFiltered(history, ano_sel) ==
    IF ano_sel # "Todos"
    THEN LET InYear(r) == Year(r.date) = ano_sel IN SelectSeq(history, InYear)
    ELSE history

\* jogos=('match_id', 'nunique') of one group
Jogos(group) == Cardinality({group[i].match_id : i \in DOMAIN group})

\* vitorias=('is_winner', 'sum') of one group
Vitorias(group) ==
    SumSeq(<<>> \o [i \in DOMAIN group |-> IF group[i].is_winner THEN 1 ELSE 0])

\* groupby('player_name').agg(...).reset_index(): one row per player, by name
GroupByPlayer(df_filtered) ==
    LET keys == Unique(<<>> \o [i \in DOMAIN df_filtered |-> df_filtered[i].player_name])
        names == SortByKeys(keys, keys)
    IN  <<>> \o [i \in 1..Len(names) |->
            LET InGroup(r) == r.player_name = names[i]
                group == SelectSeq(df_filtered, InGroup)
            IN  [player_name |-> names[i],
                 jogos       |-> Jogos(group),
                 vitorias    |-> Vitorias(group)]]

\* stats[stats['jogos'] >= 5]
EnoughJogos(row) == row.jogos >= MinJogos

\* (vitorias / jogos) * 100, kept as the exact fraction <<numerator, denominator>>
WinRate(row) == <<row.vitorias * 100, row.jogos>>

\* lines 111-118: the ranking, best win rate first, ten rows at most
Stats(df_filtered) ==
    LET kept == SelectSeq(GroupByPlayer(df_filtered), EnoughJogos)
        rated == <<>> \o [i \in 1..Len(kept) |->
                     [player_name |-> kept[i].player_name,
                      jogos       |-> kept[i].jogos,
                      vitorias    |-> kept[i].vitorias,
                      win_rate    |-> WinRate(kept[i])]]
        higher == [i \in DOMAIN rated, j \in DOMAIN rated |->
                      rated[i].win_rate[1] * rated[j].win_rate[2]
                          > rated[j].win_rate[1] * rated[i].win_rate[2]]
    IN  TakeFirst(StableSort(rated, higher), TopN)

\* ReplaceEmpty that turns the empty string into a missing value
ReplaceEmptyByNaN(x) == IF x = "" THEN NaN ELSE x

\* .replace('', 'Incolor')
ReplaceEmpty(x) == IF x = "" THEN "Incolor" ELSE x

\* Series.value_counts(): a row per distinct value that is not missing, the
\* most frequent first
ValueCounts(col) ==
    LET Present(x) == ~IsNa(x)
        values == Unique(SelectSeq(col, Present))
        counted == <<>> \o [i \in 1..Len(values) |->
                       [Identity |-> values[i],
                        Count    |-> Cardinality({j \in 1..Len(col) : col[j] = values[i]})]]
        more == [i \in DOMAIN counted, j \in DOMAIN counted |->
                    counted[i].Count > counted[j].Count]
    IN  StableSort(counted, more)

\* the colour column of the filtered frame, '' replaced
ColorColumn(df_filtered) ==
    <<>> \o [i \in DOMAIN df_filtered |-> ReplaceEmpty(df_filtered[i].color_identity)]

\* lines 127-129
Cores(df_filtered) == TakeFirst(ValueCounts(ColorColumn(df_filtered)), TopN)

\* lines 77-78: nothing to show
DashboardEmpty(s) ==
    /\ pc[s] = "run"
    /\ df_history[s] = <<>>
    /\ EndRun(s, "none")
    /\ UNCHANGED <<store, cache, novo_match_id, painel>>

\* lines 80-131: the dashboard of the selected period
Dashboard(s, ano_sel) ==
    /\ pc[s] = "run"
    /\ df_history[s] # <<>>
    /\ ano_sel \in AnoOptions(df_history[s])
    /\ LET df_filtered == DfFiltered(df_history[s], ano_sel)
       IN  painel' = [painel EXCEPT ![s] =
                         [ano_sel     |-> ano_sel,
                          df_filtered |-> df_filtered,
                          stats       |-> Stats(df_filtered),
                          cores       |-> Cores(df_filtered)]]
    /\ EndRun(s, "none")
    /\ UNCHANGED <<store, cache, novo_match_id>>

(***************************************************************************)
(* Spec: the sessions load data and record matches concurrently.           *)
(***************************************************************************)
Next ==
    \/ \E s \in Sessions : GetData(s)
    \/ Tick
    \/ \E s \in Sessions, f \in Forms : SubmitInsufficient(s, f)
    \/ \E s \in Sessions, f \in Forms, d \in Dates : SubmitInsertMatch(s, f, d, MaxMatches)
    \/ \E s \in Sessions, f \in Forms : SubmitInsertMatchFails(s, f)
    \/ \E s \in Sessions : ResolveFails(s)
    \/ \E s \in Sessions : InsertParticipants(s)
    \/ \E s \in Sessions : InsertParticipantsFails(s)
    \/ \E s \in Sessions : Success(s)

Spec == Init /\ [][Next]_vars

(***************************************************************************)
(* SpecStats: one session records matches, the store accepting every       *)
(* write, and looks at the dashboard of each period.                       *)
(***************************************************************************)
StatsSession == "s1"

NextStats ==
    \/ GetData(StatsSession)
    \/ \E sub \in StatsSubmissions :
           SubmitInsertMatch(StatsSession, sub.form, sub.data_jogo, StatsMaxMatches)
    \/ InsertParticipants(StatsSession)
    \/ Success(StatsSession)
    \/ DashboardEmpty(StatsSession)
    \/ \E ano_sel \in {"Todos"} \cup {Year(sub.data_jogo) : sub \in StatsSubmissions} :
           Dashboard(StatsSession, ano_sel)

SpecStats == Init /\ [][NextStats]_vars

(***************************************************************************)
(* Properties.                                                             *)
(***************************************************************************)
MatchIds(ms) == {ms[i].match_id : i \in DOMAIN ms}

\* the participant rows that reference match id
RowsOf(ps, id) == {i \in DOMAIN ps : ps[i].match_id = id}

\* the seats of a form with a player and a deck both chosen
FilledSeats(f) == {i \in DOMAIN f : f[i].nome # "" /\ f[i].deck_display # ""}

\* session s submits form f in this step
SubmitStep(s, f) ==
    \/ SubmitInsufficient(s, f)
    \/ \E d \in Dates : SubmitInsertMatch(s, f, d, MaxMatches)
    \/ SubmitInsertMatchFails(s, f)

\* C1: a submission with fewer than 2 seats that have both a player and a
\* deck ends with the "insufficient participants" message, adds no row to
\* matches or match_participants and leaves the cache entry as it was.
C1_InsufficientWritesNothing ==
    [][\A s \in Sessions, f \in Forms :
          (Cardinality(FilledSeats(f)) < 2 /\ SubmitStep(s, f))
              => /\ result'[s] = "insufficient"
                 /\ pc'[s] = "idle"
                 /\ UNCHANGED <<store, cache>>]_vars

\* C1 witness: a submission was turned down for too few seats while the
\* store holds a match and the cache holds an entry.
C1_Witness ==
    \E s \in Sessions :
        /\ pc[s] = "idle"
        /\ result[s] = "insufficient"
        /\ cache.present
        /\ matches # <<>>

\* C2: a submission that ends because a name could not be resolved has
\* written nothing: the Match row of the call is not in the store.
C2_UnresolvableWritesNothing ==
    \A s \in Sessions :
        (pc[s] = "idle" /\ result[s] = "error_index")
            => /\ novo_match_id[s] \notin MatchIds(matches)
               /\ RowsOf(match_participants, novo_match_id[s]) = {}

\* the decks (players) that carry a display name (name)
DecksNamed(deck_display) ==
    {i \in DOMAIN DfDecksDisplay : DfDecksDisplay[i].display_name = deck_display}

PlayersNamed(nome) == {i \in DOMAIN DfPlayers : DfPlayers[i].name = nome}

Ambiguous(p) ==
    \/ Cardinality(DecksNamed(p.deck_display)) >= 2
    \/ Cardinality(PlayersNamed(p.nome)) >= 2

\* C3: a submission with a seat whose deck display name (or player name)
\* belongs to two or more decks (players) writes no participant row.
C3_AmbiguousNameNeverWritten ==
    \A s \in Sessions :
        (\E i \in DOMAIN validos[s] : Ambiguous(validos[s][i]))
            => RowsOf(match_participants, novo_match_id[s]) = {}

\* C4: every participant row pairs a player with a deck that this player
\* owns.
C4_DeckBelongsToPlayer ==
    \A i \in DOMAIN match_participants :
        DeckRow(match_participants[i].deck_id).player_id
            = match_participants[i].player_id

\* the rows of a history frame that belong to match id
HistoryRowsOf(history, id) == {i \in DOMAIN history : history[i].match_id = id}

RowsOfPlayer(frame, name) == {i \in DOMAIN frame : frame[i].player_name = name}

GamesOf(frame, name) == {frame[i].match_id : i \in RowsOfPlayer(frame, name)}

WinsOf(frame, name) == {i \in RowsOfPlayer(frame, name) : frame[i].is_winner}

\* C6: every player of the win-rate ranking has at least 5 distinct matches
\* in the filtered frame, and between 0 and that many wins, so a win rate
\* between 0 and 100.
C6_RankingWithinBounds ==
    \A s \in Sessions :
        \A k \in DOMAIN painel[s].stats :
            LET row == painel[s].stats[k]
                games == Cardinality(GamesOf(painel[s].df_filtered, row.player_name))
                wins == Cardinality(WinsOf(painel[s].df_filtered, row.player_name))
            IN  /\ games >= 5
                /\ 0 <= wins /\ wins <= games
                /\ 0 <= row.win_rate[1] /\ row.win_rate[1] <= 100 * row.win_rate[2]

\* the counts of all colour categories of a frame
AllColorCounts(frame) ==
    LET counts == ValueCounts(ColorColumn(frame))
    IN  <<>> \o [k \in DOMAIN counts |-> counts[k].Count]

ValidReferences(vs) ==
    \A i \in DOMAIN vs :
        /\ PlayersNamed(vs[i].nome) # {}
        /\ DecksNamed(vs[i].deck_display) # {}
        /\ ~IsNa(vs[i].deck_display)

\* C8: the identifier a Match insert returns is the identifier of no Match
\* row stored before; the identifiers held by different sessions and by
\* different Match rows differ; a submission with at least 2 filled seats and
\* valid references ends in success unless a store write fails.
C8_NewDistinctMatchId ==
    /\ [](\A s, t \in Sessions :
             (s # t /\ novo_match_id[s] # 0) => novo_match_id[s] # novo_match_id[t])
    /\ [](\A i, j \in DOMAIN matches :
             i # j => matches[i].match_id # matches[j].match_id)
    /\ [][\A s \in Sessions :
             /\ (pc[s] = "run" /\ pc'[s] = "inserted")
                    => /\ novo_match_id'[s] \notin MatchIds(matches)
                       /\ novo_match_id'[s] \in MatchIds(matches')
             /\ (pc[s] = "inserted" /\ pc'[s] = "idle" /\ ValidReferences(validos[s]))
                    => result'[s] = "error_insert_participants"
             /\ (pc[s] = "inserted" /\ pc'[s] = "written")
                    => Len(validos[s]) >= 2
             /\ (pc[s] = "written" /\ pc'[s] = "idle")
                    => /\ result'[s] = "success"
                       /\ novo_match_id[s] \in MatchIds(matches)]_vars

\* C8 witness: two sessions have submitted concurrently; both hold their own
\* identifier and both are about to report success.
C8_Witness ==
    \E s, t \in Sessions :
        /\ s # t
        /\ pc[s] = "written" /\ pc[t] = "written"
        /\ novo_match_id[s] # novo_match_id[t]
        /\ {novo_match_id[s], novo_match_id[t]} \subseteq MatchIds(matches)

\* C9: every participant row references a Match row that is in the store,
\* and a submission whose Match insert fails changes nothing in the store.
C9_ParticipantsReferenceStoredMatch ==
    /\ [](\A i \in DOMAIN match_participants :
             match_participants[i].match_id \in MatchIds(matches))
    /\ [][\A s \in Sessions :
             (pc[s] = "run" /\ result'[s] = "error_insert_match")
                 => (pc'[s] = "idle" /\ UNCHANGED store)]_vars

\* C9 witness: one session has written its participant rows while the Match
\* insert of the other has failed.
C9_Witness ==
    \E s, t \in Sessions :
        /\ s # t
        /\ pc[s] = "written"
        /\ RowsOf(match_participants, novo_match_id[s]) # {}
        /\ result[t] = "error_insert_match"

\* C10: a submission whose Match insert succeeded and whose participant
\* insert failed has ended with an error message, its Match row is in the
\* store and no participant row references it.
C10_OrphanMatchStays ==
    \A s \in Sessions :
        (pc[s] = "idle" /\ result[s] = "error_insert_participants")
            => /\ novo_match_id[s] \in MatchIds(matches)
               /\ RowsOf(match_participants, novo_match_id[s]) = {}

\* C10 witness: such a submission has ended.
C10_Witness ==
    \E s \in Sessions :
        /\ pc[s] = "idle"
        /\ result[s] = "error_insert_participants"
        /\ novo_match_id[s] \in MatchIds(matches)

====
